---- MODULE Spec2Model ----
(***************************************************************************)
(* A model of babel-plugin-transform-define (src/src/index.js): the        *)
(* flattening of a replacement configuration into candidate keys, the      *)
(* selection of a key by the shape comparators, the substitution with its  *)
(* one-level constant folding, and the import-declaration rewriter.        *)
(*                                                                         *)
(* JavaScript strings are sequences of one-character strings, so that      *)
(* length, indexOf, replace, split, join and match are computed, not       *)
(* assumed.  JavaScript values are tagged records.                         *)
(***************************************************************************)
EXTENDS Integers, Sequences, FiniteSets, TLC

VARIABLES
    replacements,    \* state.opts as returned by getReplacements (an object or null)
    tree,            \* the visited nodePath: the node, its parent and its grandparent
    store,           \* the node objects of an import declaration, by identity
    before,          \* tree and store as they were when the visit started
    pc,              \* "ready" | "visited" | "threw" | "flatten" | "done"
    replacementKey,  \* the key(s) that find() returned during the visit
    walk,            \* the state of traverse's walker inside getSortedObjectPaths
    sorted           \* the list getSortedObjectPaths returned

vars == <<replacements, tree, store, before, pc, replacementKey, walk, sorted>>

-----------------------------------------------------------------------------
(* JavaScript values *)

UNDEFINED == [t |-> "undefined"]
NULL == [t |-> "null"]
Str(s) == [t |-> "str", s |-> s]
Bool(b) == [t |-> "bool", b |-> b]
\* A plain object: its own enumerable properties in insertion order.
Obj(e) == [t |-> "obj", e |-> e]
\* A property value that refers back to the n-th enclosing object (1: the
\* object that holds the property): the only way an object graph has a cycle.
Up(n) == [t |-> "up", n |-> n]

TYPEOF == <<"t", "y", "p", "e", "o", "f", " ">>
UNDEF == <<"u", "n", "d", "e", "f", "i", "n", "e", "d">>

\* String(v), as String.prototype.replace / indexOf coerce their arguments.
ToStr(v) ==
    CASE v.t = "str" -> v.s
      [] v.t = "undefined" -> UNDEF
      [] v.t = "null" -> <<"n", "u", "l", "l">>
      [] v.t = "bool" -> IF v.b THEN <<"t", "r", "u", "e">> ELSE <<"f", "a", "l", "s", "e">>
      [] OTHER -> <<"[", "o", "b", "j", "e", "c", "t", " ", "O", "b", "j", "e", "c", "t", "]">>

-----------------------------------------------------------------------------
(* String primitives *)

RECURSIVE Join(_)
\* Array.prototype.join(".")
Join(parts) ==
    IF Len(parts) = 0 THEN <<>>
    ELSE IF Len(parts) = 1 THEN parts[1]
    ELSE parts[1] \o <<".">> \o Join(Tail(parts))

RECURSIVE Split(_)
\* String.prototype.split("."); lodash's stringToPath agrees with it on
\* strings without brackets and quotes.
Split(s) ==
    IF \A i \in 1..Len(s) : s[i] # "." THEN <<s>>
    ELSE LET i == CHOOSE i \in 1..Len(s) : s[i] = "." /\ \A j \in 1..(i - 1) : s[j] # "."
         IN  <<SubSeq(s, 1, i - 1)>> \o Split(SubSeq(s, i + 1, Len(s)))

\* String.prototype.substring(start, end): 0-based, end excluded, both
\* clamped to the length.
Substring(s, start, end) ==
    LET a == IF start > Len(s) THEN Len(s) ELSE start
        b == IF end > Len(s) THEN Len(s) ELSE end
    IN  SubSeq(s, a + 1, b)

OccursAt(s, sub, i) ==
    /\ i + Len(sub) - 1 <= Len(s)
    /\ \A j \in 1..Len(sub) : s[i + j - 1] = sub[j]

\* String.prototype.indexOf: the 0-based index of the first occurrence, or -1.
IndexOf(s, sub) ==
    IF \E i \in 1..(Len(s) + 1) : OccursAt(s, sub, i)
    THEN (CHOOSE i \in 1..(Len(s) + 1) :
            OccursAt(s, sub, i) /\ \A j \in 1..(i - 1) : ~OccursAt(s, sub, j)) - 1
    ELSE -1

\* String.prototype.replace with a string pattern: the first literal
\* occurrence of the pattern is replaced, nothing else.
Replace(s, pattern, replacement) ==
    LET i == IndexOf(s, pattern)
    IN  IF i < 0 THEN s
        ELSE SubSeq(s, 1, i) \o replacement \o SubSeq(s, i + Len(pattern) + 1, Len(s))

RECURSIVE MatchHere(_, _, _, _)
\* The pattern from position j on matches s from position i on.  "^" is
\* the start-of-input assertion, "." any character, the others themselves.
MatchHere(s, i, p, j) ==
    IF j > Len(p) THEN TRUE
    ELSE IF p[j] = "^" THEN i = 1 /\ MatchHere(s, i, p, j + 1)
    ELSE /\ i <= Len(s)
         /\ (p[j] = "." \/ p[j] = s[i])
         /\ MatchHere(s, i + 1, p, j + 1)

\* String.prototype.match(pattern) !== null: the pattern string is compiled
\* to a regular expression and searched for anywhere in s.
Match(s, pattern) == \E i \in 1..(Len(s) + 1) : MatchHere(s, i, pattern, 1)

-----------------------------------------------------------------------------
(* Objects.  An object of the configuration is identified by its address,  *)
(* the keys that lead to it from the root without following a back         *)
(* reference; two references are === exactly when their addresses agree.   *)

HasOwn(o, k) == o.t = "obj" /\ \E i \in 1..Len(o.e) : o.e[i].k = k

\* o[k], not yet dereferenced.
Prop(o, k) == o.e[CHOOSE i \in 1..Len(o.e) : o.e[i].k = k].v

RECURSIVE ValueAt(_, _)
ValueAt(root, addr) ==
    IF Len(addr) = 0 THEN root
    ELSE Prop(ValueAt(root, SubSeq(addr, 1, Len(addr) - 1)), addr[Len(addr)])

\* The address of the value that property k of the object at addr holds.
Child(root, addr, k) ==
    LET v == Prop(ValueAt(root, addr), k)
    IN  IF v.t = "up" THEN SubSeq(addr, 1, Len(addr) - (v.n - 1))
        ELSE Append(addr, k)

RECURSIVE ContainsUp(_)
\* The object graph reachable from v has a cycle.
ContainsUp(v) ==
    \/ v.t = "up"
    \/ v.t = "obj" /\ \E i \in 1..Len(v.e) : ContainsUp(v.e[i].v)

-----------------------------------------------------------------------------
(* lodash has / get *)

HasDot(s) == \E i \in 1..Len(s) : s[i] = "."

\* lodash isKey: a path value that is taken as one property name.
IsKey(value, object) ==
    \/ value.t # "str"
    \/ ~HasDot(value.s)
    \/ HasOwn(object, value.s)

\* lodash castPath / toKey: the property names a path value stands for.
CastPath(value, object) ==
    IF IsKey(value, object) THEN <<ToStr(value)>> ELSE Split(value.s)

RECURSIVE HasFrom(_, _, _, _)
HasFrom(root, addr, path, i) ==
    IF i > Len(path) THEN TRUE
    ELSE /\ HasOwn(ValueAt(root, addr), path[i])
         /\ HasFrom(root, Child(root, addr, path[i]), path, i + 1)

\* lodash has(object, path)
Has(object, path) ==
    LET p == CastPath(path, object)
    IN  Len(p) > 0 /\ HasFrom(object, <<>>, p, 1)

RECURSIVE GetFrom(_, _, _, _)
GetFrom(root, addr, path, i) ==
    IF i > Len(path) THEN addr
    ELSE GetFrom(root, Child(root, addr, path[i]), path, i + 1)

\* lodash get(object, path), where has(object, path) holds: the address of
\* the value found.
Get(object, path) == GetFrom(object, <<>>, CastPath(path, object), 1)

-----------------------------------------------------------------------------
(* getSortedObjectPaths *)

\* traverse(obj): the walker has called back on the root and is about to
\* iterate over its keys.
WalkInit(obj) ==
    [stack |-> IF obj.t = "obj" THEN <<[node |-> <<>>, path |-> <<>>, idx |-> 1]>> ELSE <<>>,
     acc |-> << <<>> >>]

\* A walker that takes no node for circular.
NeverCircular(stack, node) == FALSE

\* traverse sets state.circular when the node is one of its parents.
Circular(stack, node) == \E i \in 1..Len(stack) : stack[i].node = node

\* One iteration of the walker's forEach over the keys of the node on top
\* of the parents stack: the callback of .paths() records the child's path,
\* and the walker descends unless the child is a leaf or circular.
WalkStep(obj, w) ==
    LET n == Len(w.stack)
        top == w.stack[n]
        o == ValueAt(obj, top.node)
    IN  IF top.idx > Len(o.e)
        THEN [w EXCEPT !.stack = SubSeq(w.stack, 1, n - 1)]
        ELSE LET key == o.e[top.idx].k
                 node == Child(obj, top.node, key)
                 path == Append(top.path, key)
                 descend == ValueAt(obj, node).t = "obj" /\ ~Circular(w.stack, node)
                 rest == [w.stack EXCEPT ![n].idx = top.idx + 1]
             IN  [stack |-> IF descend
                            THEN Append(rest, [node |-> node, path |-> path, idx |-> 1])
                            ELSE rest,
                  acc |-> Append(w.acc, path)]

RECURSIVE RunWalk(_, _)
RunWalk(obj, w) == IF Len(w.stack) = 0 THEN w.acc ELSE RunWalk(obj, WalkStep(obj, w))

\* traverse(obj).paths()
Paths(obj) == RunWalk(obj, WalkInit(obj))

\* .filter((arr) => arr.length).map((arr) => arr.join("."))
FilterJoin(paths) ==
    LET kept == SelectSeq(paths, LAMBDA p : Len(p) > 0)
    IN  [i \in 1..Len(kept) |-> Join(kept[i])]

\* The comparator handed to sort, (elem) => elem.length: it reads its first
\* argument only.
Comparator(a, b) == Len(a)

\* ECMA-262: a consistent comparator orders its arguments the same way
\* whichever is given first.
ConsistentComparator(list) ==
    \A i, j \in 1..Len(list) :
        i # j => /\ Comparator(list[i], list[j]) > 0 => Comparator(list[j], list[i]) < 0
                 /\ Comparator(list[i], list[j]) = 0 => Comparator(list[j], list[i]) = 0

\* .sort((elem) => elem.length): with a comparator that is not consistent
\* the order of the result is implementation-defined, any permutation of
\* the list; a comparator consistent here calls every pair equal, and the
\* sort, being stable, returns the list as it was.
SortOutcomes(list) ==
    IF ConsistentComparator(list) THEN {list}
    ELSE {[i \in 1..Len(list) |-> list[p[i]]] : p \in Permutations(1..Len(list))}

\* getSortedObjectPaths(obj): the lists it may return.
getSortedObjectPaths(obj) ==
    IF obj.t # "obj" THEN {<<>>}
    ELSE SortOutcomes(FilterJoin(Paths(obj)))

-----------------------------------------------------------------------------
(* Nodes.  Babel's valueToNode and path.evaluate are the host's; they are  *)
(* modelled by what they return for the values and nodes met here.         *)

StringLiteral(s) == [type |-> "StringLiteral", value |-> s]
BooleanLiteral(b) == [type |-> "BooleanLiteral", value |-> b]
ObjectExpression(v) == [type |-> "ObjectExpression", value |-> v]
Identifier(name) == [type |-> "Identifier", name |-> name]
\* a.b.c, written as the names of its access chain
MemberExpression(chain) == [type |-> "MemberExpression", chain |-> chain]
UnaryExpression(op, arg) == [type |-> "UnaryExpression", operator |-> op, argument |-> arg]

\* t.valueToNode(value)
ValueToNode(v) ==
    CASE v.t = "str" -> StringLiteral(v.s)
      [] v.t = "bool" -> BooleanLiteral(v.b)
      [] v.t = "undefined" -> Identifier(UNDEF)
      [] v.t = "null" -> [type |-> "NullLiteral"]
      [] OTHER -> ObjectExpression(v)

\* The operands of a binary expression whose child on the given side is node.
Left(parent, node) == IF parent.side = "left" THEN node ELSE parent.other
Right(parent, node) == IF parent.side = "right" THEN node ELSE parent.other

\* parentPath.evaluate() on a binary expression: confident when both
\* operands are literals, and then the value of the comparison.
Evaluate(parent, node) ==
    LET l == Left(parent, node)
        r == Right(parent, node)
    IN  IF l.type = "StringLiteral" /\ r.type = "StringLiteral"
        THEN [confident |-> TRUE,
              value |-> Bool(IF parent.operator = "===" THEN l.value = r.value
                             ELSE l.value # r.value)]
        ELSE [confident |-> FALSE, value |-> UNDEFINED]

\* A replaceAndEvaluateNode that does not look at result.confident.
replaceAndEvaluateUnconfident(tr, replacement) ==
    LET node == ValueToNode(replacement)
        replaced == [tr EXCEPT !.node = node]
    IN  IF tr.parent.type = "BinaryExpression"
        THEN [replaced EXCEPT !.parent = ValueToNode(Evaluate(tr.parent, node).value)]
        ELSE replaced

\* replaceAndEvaluateNode(replaceFn, nodePath, replacement): the tree after it.
replaceAndEvaluateNode(tr, replacement) ==
    LET node == ValueToNode(replacement)
        replaced == [tr EXCEPT !.node = node]
    IN  IF tr.parent.type = "BinaryExpression"
        THEN LET result == Evaluate(tr.parent, node)
             IN  IF result.confident
                 THEN [replaced EXCEPT !.parent = ValueToNode(result.value)]
                 ELSE replaced
        ELSE replaced

\* nodePath.matchesPattern(value): the pattern, split at its dots, names the
\* access chain of the member expression part by part.
memberExpressionComparator(node, value) ==
    node.type = "MemberExpression" /\ Split(value) = node.chain
identifierComparator(node, value) == node.name = value
\* nodePath.node.argument.name is undefined unless the argument is an identifier.
unaryExpressionComparator(node, value) ==
    node.argument.type = "Identifier" /\ node.argument.name = value

\* The comparators of import declarations; the declaration refers to its
\* source literal and its specifiers by their index in the node store st.
importDeclarationComparator(tr, st, value) == Match(st[tr.source].value, value)

importAliasComparator(tr, st, value) ==
    \E i \in 1..Len(tr.specifiers) :
        /\ st[tr.specifiers[i]].type = "ImportSpecifier"
        /\ Match(st[tr.specifiers[i]].imported.name, value)

\* The call comparator(nodePath, value) of the comparator of that name; the
\* node path is the tree and the nodes in store it refers to.
Call(comparator, tr, st, value) ==
    CASE comparator = "memberExpressionComparator" -> memberExpressionComparator(tr.node, value)
      [] comparator = "identifierComparator" -> identifierComparator(tr.node, value)
      [] comparator = "unaryExpressionComparator" -> unaryExpressionComparator(tr.node, value)
      [] comparator = "importDeclarationComparator" -> importDeclarationComparator(tr, st, value)
      [] comparator = "importAliasComparator" -> importAliasComparator(tr, st, value)

\* lodash find(list, (value) => comparator(nodePath, value)): the first
\* element that satisfies the comparator, or undefined.
Find(list, comparator, tr, st) ==
    LET hits == {i \in 1..Len(list) : Call(comparator, tr, st, list[i])}
    IN  IF hits = {} THEN UNDEFINED
        ELSE Str(list[CHOOSE i \in hits : \A j \in hits : i <= j])

\* processNode(replacements, nodePath, replaceFn, comparator): the trees it
\* may leave, each with the key find() returned.
processNode(repl, tr, comparator) ==
    {LET key == Find(list, comparator, tr, <<>>)
     IN  [key |-> key,
          tree |-> IF Has(repl, key)
                   THEN replaceAndEvaluateNode(tr, ValueAt(repl, Get(repl, key)))
                   ELSE tr] :
     list \in getSortedObjectPaths(repl)}

TypeofPrefixLen == 7

\* A typeofValues object whose keys keep the blank of the prefix.
TypeofValuesKeepingBlank(repl) ==
    LET kept == SelectSeq(repl.e, LAMBDA e : Substring(e.k, 0, TypeofPrefixLen) = TYPEOF)
    IN  Obj([i \in 1..Len(kept) |->
                [k |-> Substring(kept[i].k, TypeofPrefixLen - 1, Len(kept[i].k)), v |-> kept[i].v]])

\* The typeofValues object the UnaryExpression visitor builds: the keys
\* that start with "typeof ", without it, bound to the same values.
TypeofValues(repl) ==
    LET kept == SelectSeq(repl.e, LAMBDA e : Substring(e.k, 0, TypeofPrefixLen) = TYPEOF)
    IN  Obj([i \in 1..Len(kept) |->
                [k |-> Substring(kept[i].k, TypeofPrefixLen, Len(kept[i].k)), v |-> kept[i].v]])

-----------------------------------------------------------------------------
(* Import declarations.  The source literal and the specifiers are node    *)
(* objects in store; the declaration refers to them by their index, so     *)
(* that writing to a node and putting another node in its place differ.    *)

ImportSpecifier(imported, local) ==
    [type |-> "ImportSpecifier",
     imported |-> [name |-> imported, loc |-> [identifierName |-> imported]],
     local |-> local]
ImportDefaultSpecifier(local) == [type |-> "ImportDefaultSpecifier", local |-> local]
SourceLiteral(s) ==
    [type |-> "StringLiteral", value |-> s,
     extra |-> [rawValue |-> s, raw |-> <<"'">> \o s \o <<"'">>]]

\* nodePath.get(...): a path onto a node object.
PathTo(id) == [node |-> id]

\* t.clone(x) copies the properties of x into a new object, one by one and
\* not in depth.  Given a path, the copy is another path onto the same node.
Clone(path) == [f \in DOMAIN path |-> path[f]]

getReplacementKey(tr, st, list, comparator) == Find(list, comparator, tr, st)

\* The body of the loop of processImportNameNode for one specifier path.
RenameSpecifier(st, specifier, replacementKey_, replacement) ==
    LET specifierReplacement == Clone(specifier)
        imported == st[specifierReplacement.node].imported
    IN  IF IndexOf(imported.name, ToStr(replacementKey_)) >= 0
        THEN [st EXCEPT ![specifierReplacement.node].imported =
                [name |-> Replace(imported.name, ToStr(replacementKey_), ToStr(replacement)),
                 loc |-> [identifierName |->
                    Replace(imported.loc.identifierName, ToStr(replacementKey_), ToStr(replacement))]]]
        ELSE st

RECURSIVE RenameFrom(_, _, _, _, _)
RenameFrom(st, tr, i, replacementKey_, replacement) ==
    IF i > Len(tr.specifiers) THEN st
    ELSE RenameFrom(
            IF st[tr.specifiers[i]].type = "ImportSpecifier"
            THEN RenameSpecifier(st, PathTo(tr.specifiers[i]), replacementKey_, replacement)
            ELSE st,
            tr, i + 1, replacementKey_, replacement)

\* processImportNameNode(replacement, replacementKey, nodePath, t): the node
\* objects after it.  specifier.replaceWith(specifierReplacement.node) puts
\* the node the path already holds in its place, and changes nothing.
processImportNameNode(replacement, replacementKey_, tr, st) ==
    RenameFrom(st, tr, 1, replacementKey_, replacement)

\* processSourceImportNode(replacement, replacementKey, nodePath, t): the
\* declaration and the node objects after it.
processSourceImportNode(replacement, replacementKey_, tr, st) ==
    LET sourceNode == PathTo(tr.source)
        newSource == Clone(sourceNode)
        newSourceNode == newSource.node
        old == st[newSourceNode]
        newSourceValue == Replace(old.value, ToStr(replacementKey_), ToStr(replacement))
    IN  [tree |-> [tr EXCEPT !.source = newSourceNode],
         store |-> [st EXCEPT ![newSourceNode] =
            [old EXCEPT !.value = newSourceValue,
                        !.extra = [item \in DOMAIN old.extra |->
                            Replace(old.extra[item], ToStr(replacementKey_), ToStr(replacement))]]]]

-----------------------------------------------------------------------------
(* Bounds and the inputs drawn in the initial states *)

\* The most properties an object of a configuration has.
MaxEntries == 2
\* The most paths (flattened keys) a configuration has.
MaxPaths == 3

P == <<"p">>
Q == <<"q">>

RECURSIVE PathCount(_)
\* The number of paths below a value, its own included.
PathCount(v) ==
    IF v.t # "obj" \/ Len(v.e) = 0 THEN 1
    ELSE PathCount(v.e[1].v) + PathCount(Obj(Tail(v.e)))

RECURSIVE EntrySeqs(_, _, _, _, _)
\* The property lists of at most n properties named in keys and at most m
\* paths, for an object with depth - 1 enclosing objects.  in.prims are the
\* primitive values of the top-level properties, in.nested those of the
\* properties of nested objects, in.sub the names of these; with in.cyc a
\* property may refer back to an enclosing object.
EntrySeqs(keys, depth, m, n, in) ==
    IF m < 1 \/ n < 1 THEN {<<>>}
    ELSE {<<>>} \cup UNION { UNION { {<<[k |-> k, v |-> v]>> \o rest :
                rest \in EntrySeqs(keys \ {k}, depth, m - PathCount(v), n - 1, in)} :
            v \in (IF depth = 1 THEN in.prims ELSE in.nested)
                  \cup (IF in.cyc THEN {Up(i) : i \in 1..depth} ELSE {})
                  \cup {Obj(e) : e \in EntrySeqs(in.sub, depth + 1, m - 1, MaxEntries, in)}} :
        k \in keys}

\* The configurations over the given top-level keys.
Configs(in) == {Obj(e) : e \in EntrySeqs(in.keys, 1, MaxPaths, MaxEntries, in)}

FlattenInputs ==
    [keys |-> {<<"a">>, <<"a", ".", "b">>, <<"x", "y">>},
     sub |-> {<<"b">>}, prims |-> {Str(P)}, nested |-> {Str(P)}, cyc |-> TRUE]

-----------------------------------------------------------------------------
(* getSortedObjectPaths, step by step *)

NoTree == [type |-> "none"]

InitFlatten ==
    /\ replacements \in Configs(FlattenInputs) \cup {NULL, UNDEFINED}
    /\ tree = NoTree
    /\ store = <<>>
    /\ before = [tree |-> NoTree, store |-> <<>>]
    /\ pc = "flatten"
    /\ replacementKey = <<>>
    /\ walk = WalkInit(replacements)
    /\ sorted = <<>>

\* if (!obj) { return []; }
ReturnEmpty ==
    /\ pc = "flatten"
    /\ replacements.t # "obj"
    /\ sorted' = <<>>
    /\ pc' = "done"
    /\ UNCHANGED <<replacements, tree, store, before, replacementKey, walk>>

\* traverse(obj).paths(): the walker visits the next node.
TraverseStep ==
    /\ pc = "flatten"
    /\ replacements.t = "obj"
    /\ Len(walk.stack) > 0
    /\ walk' = WalkStep(replacements, walk)
    /\ UNCHANGED <<replacements, tree, store, before, pc, replacementKey, sorted>>

\* .filter(...).map(...).sort(...) on the paths the walker collected.
FilterMapSort ==
    /\ pc = "flatten"
    /\ replacements.t = "obj"
    /\ Len(walk.stack) = 0
    /\ sorted' \in SortOutcomes(FilterJoin(walk.acc))
    /\ pc' = "done"
    /\ UNCHANGED <<replacements, tree, store, before, replacementKey, walk>>

NextFlatten == ReturnEmpty \/ TraverseStep \/ FilterMapSort

SpecFlatten == InitFlatten /\ [][NextFlatten]_vars

-----------------------------------------------------------------------------
(* The visitors *)

A == <<"a">>
B == <<"b">>
C == <<"c">>
Z == <<"z">>

Grand == [type |-> "VariableDeclarator", id |-> <<"x">>]

\* What the visited expression is a child of.
Parents ==
    {[type |-> "ExpressionStatement"]}
    \cup {[type |-> "BinaryExpression", operator |-> "===", side |-> "left", other |-> o] :
            o \in {StringLiteral(P), Identifier(Z)}}
    \cup {[type |-> "BinaryExpression", operator |-> "!==", side |-> "right", other |-> StringLiteral(P)]}

ExpressionTrees(nodes) ==
    {[kind |-> "expression", node |-> n, parent |-> pa, grand |-> Grand] :
        n \in nodes, pa \in Parents}

ImportTree(source, specifiers) ==
    [tree |-> [kind |-> "import", source |-> 1,
               specifiers |-> [i \in 1..Len(specifiers) |-> i + 1]],
     store |-> <<SourceLiteral(source)>> \o specifiers]

\* The inputs of the member expression and identifier visitors.
MemberInputs ==
    [keys |-> {A, <<"a", ".", "b">>, UNDEF}, sub |-> {B, C}, prims |-> {Str(P), Str(Q)}, nested |-> {Str(P)},
     cyc |-> FALSE,
     trees |-> {[tree |-> tr, store |-> <<>>] :
        tr \in ExpressionTrees({MemberExpression(<<A, B>>), MemberExpression(<<A, B, C>>),
                                MemberExpression(<<Z, B>>), Identifier(A), Identifier(Z)})}]

\* The inputs of the unary expression visitor.
UnaryInputs ==
    [keys |-> {TYPEOF \o A, TYPEOF \o UNDEF, A}, sub |-> {B}, prims |-> {Str(P), Str(Q)}, nested |-> {Str(P)},
     cyc |-> FALSE,
     trees |-> {[tree |-> tr, store |-> <<>>] :
        tr \in ExpressionTrees({UnaryExpression("typeof", Identifier(A)),
                                UnaryExpression("typeof", Identifier(Z)),
                                UnaryExpression("typeof", StringLiteral(A)),
                                UnaryExpression("!", Identifier(A))})}]

\* The inputs of the import declaration visitor.
ImportInputs ==
    [keys |-> {A, <<"a", "b">>, <<"^", "a">>}, sub |-> {B}, prims |-> {Str(P), Str(Q)}, nested |-> {Str(P)},
     cyc |-> FALSE,
     trees |-> {ImportTree(src, sp) :
        src \in {<<"a", "/", "b", "a", "b">>, <<"c", "/", "a">>, <<"z">>},
        sp \in {<<ImportDefaultSpecifier(<<"x">>)>>,
                <<ImportSpecifier(<<"a", "b">>, <<"x">>)>>,
                <<ImportSpecifier(<<"c", "a">>, <<"x">>), ImportSpecifier(Z, Z)>>,
                <<ImportSpecifier(A, A), ImportSpecifier(<<"b", "a", "b">>, <<"y">>)>>}}]

Init ==
    \E in \in {MemberInputs, UnaryInputs, ImportInputs} :
        /\ replacements \in Configs(in) \cup {NULL}
        /\ \E t \in in.trees :
            /\ tree = t.tree
            /\ store = t.store
            /\ before = t
        /\ pc = "ready"
        /\ replacementKey = <<>>
        /\ walk = [stack |-> <<>>, acc |-> <<>>]
        /\ sorted = <<>>

\* The host calls the visitor of the node's type, once.
Visiting(type) ==
    /\ pc = "ready"
    /\ tree.kind = "expression"
    /\ tree.node.type = type

\* MemberExpression(nodePath, state)
MemberExpressionVisitor ==
    /\ Visiting("MemberExpression")
    /\ \E out \in processNode(replacements, tree, "memberExpressionComparator") :
        /\ tree' = out.tree
        /\ replacementKey' = <<out.key>>
    /\ pc' = "visited"
    /\ UNCHANGED <<replacements, store, before, walk, sorted>>

\* Identifier(nodePath, state)
IdentifierVisitor ==
    /\ Visiting("Identifier")
    /\ \E out \in processNode(replacements, tree, "identifierComparator") :
        /\ tree' = out.tree
        /\ replacementKey' = <<out.key>>
    /\ pc' = "visited"
    /\ UNCHANGED <<replacements, store, before, walk, sorted>>

\* UnaryExpression(nodePath, state).  Object.keys(null) throws a TypeError.
UnaryExpressionVisitor ==
    /\ Visiting("UnaryExpression")
    /\ IF tree.node.operator # "typeof"
       THEN /\ pc' = "visited"
            /\ UNCHANGED <<tree, replacementKey>>
       ELSE IF replacements.t # "obj"
       THEN /\ pc' = "threw"
            /\ UNCHANGED <<tree, replacementKey>>
       ELSE /\ \E out \in processNode(TypeofValues(replacements), tree, "unaryExpressionComparator") :
                /\ tree' = out.tree
                /\ replacementKey' = <<out.key>>
            /\ pc' = "visited"
    /\ UNCHANGED <<replacements, store, before, walk, sorted>>

\* ImportDeclaration(nodePath, state): the specifiers, then the source, each
\* with the first key of the one replacementList its comparator accepts.
ImportDeclarationVisitor ==
    /\ pc = "ready"
    /\ tree.kind = "import"
    /\ \E replacementList \in getSortedObjectPaths(replacements) :
       \E aliasKey \in {getReplacementKey(tree, store, replacementList,
                                            "importAliasComparator")} :
       \E renamed \in {IF Has(replacements, aliasKey)
                       THEN processImportNameNode(ValueAt(replacements, Get(replacements, aliasKey)),
                                                  aliasKey, tree, store)
                       ELSE store} :
       \E sourceKey \in {getReplacementKey(tree, renamed, replacementList,
                                             "importDeclarationComparator")} :
       \E out \in {IF Has(replacements, sourceKey)
                   THEN processSourceImportNode(ValueAt(replacements, Get(replacements, sourceKey)),
                                                sourceKey, tree, renamed)
                   ELSE [tree |-> tree, store |-> renamed]} :
            /\ tree' = out.tree
            /\ store' = out.store
            /\ replacementKey' = <<aliasKey, sourceKey>>
    /\ pc' = "visited"
    /\ UNCHANGED <<replacements, before, walk, sorted>>

Next ==
    \/ ImportDeclarationVisitor
    \/ MemberExpressionVisitor
    \/ IdentifierVisitor
    \/ UnaryExpressionVisitor

Spec == Init /\ [][Next]_vars

-----------------------------------------------------------------------------
(* What the properties below speak of *)

Range(f) == {f[i] : i \in DOMAIN f}

\* The flattened keys of a configuration, in no order.
CandidateKeys(repl) == IF repl.t # "obj" THEN {} ELSE Range(FilterJoin(Paths(repl)))

\* The value lodash finds under a flattened key.
BoundValue(repl, k) == ValueAt(repl, Get(repl, Str(k)))

node0 == before.tree.node

\* Two nodes are of one type and alike.
SameNode(n, m) == n.type = m.type /\ n = m

\* The flattened keys that make the comparator of the i-th search of the
\* visit return true on the node as it was before the visit.
MatchingKeys(i) ==
    IF before.tree.kind = "import"
    THEN {k \in CandidateKeys(replacements) :
            IF i = 1 THEN importAliasComparator(before.tree, before.store, k)
            ELSE importDeclarationComparator(before.tree, before.store, k)}
    ELSE CASE node0.type = "MemberExpression" ->
                {k \in CandidateKeys(replacements) : memberExpressionComparator(node0, k)}
           [] node0.type = "Identifier" ->
                {k \in CandidateKeys(replacements) : identifierComparator(node0, k)}
           [] OTHER ->
                IF node0.operator = "typeof" /\ replacements.t = "obj"
                THEN {k \in CandidateKeys(TypeofValues(replacements)) :
                        unaryExpressionComparator(node0, k)}
                ELSE {}

Searches == IF before.tree.kind = "import" THEN {1, 2} ELSE {1}

\* The number of characters a match of the pattern consumes.
MatchLen(pattern) == Cardinality({j \in 1..Len(pattern) : pattern[j] # "^"})

\* s with the leftmost match of the pattern replaced.
RegexReplace(s, pattern, replacement) ==
    IF ~Match(s, pattern) THEN s
    ELSE LET i == CHOOSE i \in 1..(Len(s) + 1) :
                    /\ MatchHere(s, i, pattern, 1)
                    /\ \A j \in 1..(i - 1) : ~MatchHere(s, j, pattern, 1)
         IN  SubSeq(s, 1, i - 1) \o replacement \o SubSeq(s, i + MatchLen(pattern), Len(s))

RECURSIVE StableSortByLengthDesc(_)
\* The list ordered by descending length, ties in their original order.
StableSortByLengthDesc(list) ==
    IF Len(list) = 0 THEN <<>>
    ELSE LET last == list[Len(list)]
             rest == StableSortByLengthDesc(SubSeq(list, 1, Len(list) - 1))
             n == Cardinality({i \in 1..Len(rest) : Len(rest[i]) >= Len(last)})
         IN  SubSeq(rest, 1, n) \o <<last>> \o SubSeq(rest, n + 1, Len(rest))

-----------------------------------------------------------------------------
(* The claims *)

\* C1: when several flattened keys make the node's comparator return true,
\* the key the engine commits to is one of them and none of them is longer.
C1_LongestMatchingKeySelected ==
    pc = "visited" =>
        \A i \in 1..Len(replacementKey) :
            MatchingKeys(i) # {} =>
                /\ replacementKey[i].t = "str"
                /\ replacementKey[i].s \in MatchingKeys(i)
                /\ \A k \in MatchingKeys(i) : Len(k) <= Len(replacementKey[i].s)

\* C2: the list getSortedObjectPaths returns is ordered by descending key
\* length, keys of equal length in the order the traversal found them.
C2_SortedDescendingByLength ==
    pc = "done" => sorted = StableSortByLengthDesc(FilterJoin(walk.acc))

\* C3: when no flattened key makes the node's comparator return true, the
\* visit replaces nothing: the node, its sub-nodes and its parent are as
\* they were.
C3_NoMatchLeavesNodeUntouched ==
    (pc = "visited" /\ \A i \in Searches : MatchingKeys(i) = {}) =>
        /\ tree = before.tree
        /\ store = before.store

\* C4: a member expression whose dotted access chain equals the dot-joined
\* path K of the configuration is replaced by the literal of the value found
\* at that path.
C4_MemberAccessReplacedByValueAtPath ==
    (pc # "ready" /\ before.tree.kind = "expression" /\ node0.type = "MemberExpression") =>
        \A i \in 1..Len(Paths(replacements)) :
            LET path == Paths(replacements)[i]
            IN  (Len(path) > 0 /\ Join(path) = Join(node0.chain)) =>
                    SameNode(tree.node, ValueToNode(ValueAt(replacements, path)))

\* C5: when the source of an import declaration matches a candidate key as a
\* regular expression, the matched occurrence is replaced by the bound
\* value in the source's value and in its raw text.
C5_ImportSourceMatchRewritten ==
    (pc = "visited" /\ before.tree.kind = "import" /\ MatchingKeys(2) # {}) =>
        \E k \in MatchingKeys(2) :
            /\ Has(replacements, Str(k))
            /\ LET old == before.store[before.tree.source].value
                   new == RegexReplace(old, k, ToStr(BoundValue(replacements, k)))
               IN  /\ store[tree.source].value = new
                   /\ store[tree.source].extra.rawValue = new
                   /\ store[tree.source].extra.raw = <<"'">> \o new \o <<"'">>

\* C6: after an import declaration is processed, every named specifier whose
\* imported name matches a candidate key has had that name rewritten once,
\* the others are as they were, and no local alias changed.
C6_EveryMatchingSpecifierRewrittenOnce ==
    (pc = "visited" /\ before.tree.kind = "import") =>
        /\ tree.specifiers = before.tree.specifiers
        /\ \A i \in 1..Len(tree.specifiers) :
            LET old == before.store[before.tree.specifiers[i]]
                new == store[tree.specifiers[i]]
            IN  /\ new.type = old.type
                /\ new.local = old.local
                /\ old.type = "ImportSpecifier" =>
                    LET matching == {k \in CandidateKeys(replacements) : Match(old.imported.name, k)}
                    IN  /\ new.imported.loc.identifierName = new.imported.name
                        /\ IF matching = {} THEN new.imported.name = old.imported.name
                           ELSE \E k \in matching :
                                /\ Has(replacements, Str(k))
                                /\ new.imported.name =
                                    RegexReplace(old.imported.name, k,
                                                 ToStr(BoundValue(replacements, k)))

\* C7: `typeof X` is replaced by the literal of the value bound to the key
\* "typeof X" when the configuration has that key; it is replaced only by a
\* value bound under a key that starts with "typeof "; a unary expression
\* with another operator is left as it is.
C7_TypeofKeysOnly ==
    (pc = "visited" /\ before.tree.kind = "expression" /\ node0.type = "UnaryExpression") =>
        /\ (/\ node0.operator = "typeof"
            /\ node0.argument.type = "Identifier"
            /\ HasOwn(replacements, TYPEOF \o node0.argument.name)) =>
                SameNode(tree.node, ValueToNode(Prop(replacements, TYPEOF \o node0.argument.name)))
        /\ ~SameNode(tree.node, node0) =>
                \E i \in 1..Len(replacements.e) :
                    /\ Len(replacements.e[i].k) >= Len(TYPEOF)
                    /\ SubSeq(replacements.e[i].k, 1, Len(TYPEOF)) = TYPEOF
                    /\ \/ SameNode(tree.node, ValueToNode(replacements.e[i].v))
                       \/ /\ replacements.e[i].v.t = "obj"
                          /\ \E j \in 1..Len(replacements.e[i].v.e) :
                                SameNode(tree.node, ValueToNode(replacements.e[i].v.e[j].v))
        /\ node0.operator # "typeof" => tree = before.tree

C7_Witness ==
    /\ pc = "visited"
    /\ before.tree.kind = "expression"
    /\ SameNode(node0, UnaryExpression("typeof", Identifier(A)))
    /\ replacements.t = "obj"
    /\ HasOwn(replacements, TYPEOF \o A)
    /\ HasOwn(replacements, A)
    /\ Prop(replacements, TYPEOF \o A).t = "str"
    /\ Prop(replacements, TYPEOF \o A).s = Q
    /\ SameNode(tree.node, StringLiteral(Q))

\* The value the entry of a path holds, not dereferenced; undefined when
\* the path leads through something that is no object.
RECURSIVE RawAt(_, _)
RawAt(v, path) ==
    IF Len(path) = 0 THEN v
    ELSE IF ~HasOwn(v, path[1]) THEN UNDEFINED
    ELSE RawAt(Prop(v, path[1]), Tail(path))

\* No step of the path but the last arrives at a back reference.
StopsAtCycle(obj, path) ==
    \A n \in 1..(Len(path) - 1) : RawAt(obj, SubSeq(path, 1, n)).t = "obj"

FlatteningBounded ==
    /\ replacements.t = "obj" =>
        /\ Len(walk.acc) <= PathCount(replacements)
        /\ Len(walk.stack) <= Len(walk.acc)
        /\ \A i \in 1..Len(walk.acc) : StopsAtCycle(replacements, walk.acc[i])
    /\ pc = "done" =>
        IF replacements.t = "obj"
        THEN Len(sorted) = PathCount(replacements) - 1
        ELSE sorted = <<>>

\* What is left of the flattening: the frames of the walker and, twice, the
\* paths it has not collected yet.
Rank ==
    IF pc = "done" THEN 0
    ELSE IF replacements.t # "obj" THEN 1
    ELSE 1 + Len(walk.stack) + 2 * (PathCount(replacements) - Len(walk.acc))

\* C8: flattening a finite configuration, cyclic or not, terminates with a
\* finite list: the walker never collects more paths than the configuration
\* has without going through a cycle, no collected path continues beyond a
\* back reference, a null or absent configuration gives the empty list, and
\* every step of getSortedObjectPaths brings it nearer to its return.
C8_FlatteningTerminates == [](FlatteningBounded /\ Rank >= 0) /\ [][Rank' < Rank]_vars

C8_Witness ==
    /\ pc = "done"
    /\ replacements.t = "obj"
    /\ ContainsUp(replacements)
    /\ Len(sorted) >= 3

\* Both operands of the binary expression are statically known.
BothKnown(parent, node) ==
    /\ parent.type = "BinaryExpression"
    /\ Left(parent, node).type = "StringLiteral"
    /\ Right(parent, node).type = "StringLiteral"

\* C9: after a node is substituted, its parent is replaced exactly when the
\* parent is a binary expression with both operands known, and then by the
\* literal of the value of the comparison; the grandparent is never replaced.
C9_OneLevelFolding ==
    (pc = "visited" /\ before.tree.kind = "expression" /\ ~SameNode(tree.node, node0)) =>
        LET parent0 == before.tree.parent
        IN  /\ tree.grand = before.tree.grand
            /\ ~SameNode(tree.parent, parent0) <=> BothKnown(parent0, tree.node)
            /\ BothKnown(parent0, tree.node) =>
                SameNode(tree.parent, BooleanLiteral(
                    IF parent0.operator = "===" 
                    THEN Left(parent0, tree.node).value = Right(parent0, tree.node).value
                    ELSE Left(parent0, tree.node).value # Right(parent0, tree.node).value))

C9_Witness ==
    /\ pc = "visited"
    /\ before.tree.kind = "expression"
    /\ SameNode(node0, MemberExpression(<<A, B>>))
    /\ SameNode(tree.node, StringLiteral(P))
    /\ before.tree.parent.type = "BinaryExpression"
    /\ before.tree.parent.operator = "==="
    /\ SameNode(tree.parent, BooleanLiteral(TRUE))

\* C10: an import source rewrite never writes to the original source
\* literal: the node the declaration referred to before the visit still has
\* the value and the raw text it had.
C10_OriginalSourceNodeNotMutated ==
    (pc = "visited" /\ before.tree.kind = "import") =>
        store[before.tree.source] = before.store[before.tree.source]

====
